---------------------------- MODULE Spec2Model ----------------------------
(***************************************************************************)
(* pircolate: the IRC `Message` of src/message/mod.rs.                     *)
(*                                                                         *)
(* A line is a sequence of one-character strings.  Ranges are Rust's       *)
(* half-open Range<usize>, 0-based: [start |-> s, end |-> e].  All         *)
(* characters of the model are ASCII, so byte offsets are character        *)
(* offsets.                                                                *)
(*                                                                         *)
(* src/message/mod.rs holds Message, its accessors and the constructors.   *)
(* The tokenizer (mod parser) and the two iterators (command::ArgumentIter,*)
(* tag::TagIter) are other modules of the crate: they are modelled after   *)
(* spec.md sections 4.1, 4.4, 6 and 7.                                     *)
(***************************************************************************)
EXTENDS Integers, Sequences, FiniteSets, TLC

VARIABLES call, result, ret, argIters, tagIters

vars == <<call, result, ret, argIters, tagIters>>

-----------------------------------------------------------------------------
(* Bounds *)

\* Every line over Alphabet of at most this length is parsed.
MaxLen == 4

\* Constructor parameters are all strings over ParamAlphabet up to this length.
MaxParam == 2

\* Live iterators of each kind on one Message.
MaxIters == 2

-----------------------------------------------------------------------------
(* Option, Result, Range *)

None == [some |-> FALSE]

Some(x) == [some |-> TRUE, val |-> x]

Ok(m) == [tag |-> "Ok", val |-> m]

Err(e) == [tag |-> "Err", err |-> e]

Range(s, e) == [start |-> s, end |-> e]

\* &text[range]
Slice(text, r) == SubSeq(text, r.start + 1, r.end)

\* Option::map over a range
MapSlice(text, o) == IF o.some THEN Some(Slice(text, o.val)) ELSE None

-----------------------------------------------------------------------------
(* Character classes of the grammar (spec.md section 6) *)

Letters == {"a","b","c","d","e","f","g","h","i","j","k","l","m","n","o","p","q",
            "r","s","t","u","v","w","x","y","z",
            "A","B","C","D","E","F","G","H","I","J","K","L","M","N","O","P","Q",
            "R","S","T","U","V","W","X","Y","Z"}

Digits == {"0","1","2","3","4","5","6","7","8","9"}

SP == " "

\* command := 1*letter | 3digit
IsCommand(tok) ==
    \/ Len(tok) >= 1 /\ \A i \in 1..Len(tok) : tok[i] \in Letters
    \/ Len(tok) = 3 /\ \A i \in 1..Len(tok) : tok[i] \in Digits

-----------------------------------------------------------------------------
(* Parser: one left-to-right pass with a cursor (spec.md 4.1) *)

RECURSIVE ScanUntil(_, _, _)
\* The first offset >= i holding a character of stop, or the end of the line.
ScanUntil(raw, i, stop) ==
    IF i >= Len(raw) \/ raw[i + 1] \in stop THEN i
    ELSE ScanUntil(raw, i + 1, stop)

RECURSIVE SkipSpaces(_, _)
\* Advance past a run of spaces.
SkipSpaces(raw, i) ==
    IF i < Len(raw) /\ raw[i + 1] = SP THEN SkipSpaces(raw, i + 1) ELSE i

RECURSIVE ParseTagEntries(_, _)

\* One tag entry is scanned, up to offset e; a ';' there starts the next entry.
TagEntryRest(raw, entry, e) ==
    IF e < Len(raw) /\ raw[e + 1] = ";"
    THEN <<entry>> \o ParseTagEntries(raw, e + 1)
    ELSE <<entry>>

\* The entry whose key is raw[i..kEnd): an '=' at kEnd introduces its value,
\* which runs to the next ';' or space; without '=' the value is None.
TagEntryValue(raw, i, kEnd) ==
    IF kEnd < Len(raw) /\ raw[kEnd + 1] = "="
    THEN LET vEnd == ScanUntil(raw, kEnd + 1, {";", SP})
         IN  TagEntryRest(raw, <<Range(i, kEnd), Some(Range(kEnd + 1, vEnd))>>, vEnd)
    ELSE TagEntryRest(raw, <<Range(i, kEnd), None>>, kEnd)

\* The tag entries from offset i: split on ';', each entry on its first '='.
ParseTagEntries(raw, i) == TagEntryValue(raw, i, ScanUntil(raw, i, {";", "=", SP}))

\* An empty tag key is malformed.
TagsResult(entries, next) ==
    IF \E k \in 1..Len(entries) : entries[k][1].start = entries[k][1].end
    THEN [ok |-> FALSE]
    ELSE [ok |-> TRUE, tags |-> Some(entries), next |-> next]

\* The tag section raw[1..secEnd); an empty section has no entries.
TagSection(raw, secEnd) ==
    TagsResult(IF secEnd = 1 THEN <<>> ELSE ParseTagEntries(raw, 1),
               SkipSpaces(raw, secEnd))

\* Step 1: the tag section of a line that starts with '@' ends at the first space.
ParseTags(raw) == TagSection(raw, ScanUntil(raw, 1, {SP}))

\* PrefixHost with the host taken from the end of the name, not of the user.
PrefixHostFromName(raw, i, secEnd, nameEnd, user, p) ==
    [ok |-> TRUE,
     prefix |-> Some([raw_prefix |-> Range(i + 1, secEnd),
                      prefix     |-> Range(i + 1, nameEnd),
                      user       |-> user,
                      host       |-> IF p < secEnd /\ raw[p + 1] = "@"
                                     THEN Some(Range(nameEnd + 1, secEnd))
                                     ELSE None]),
     next |-> SkipSpaces(raw, secEnd)]

\* The prefix ranges, the name and the user being scanned up to offset p:
\* an '@' there introduces the host, which runs to the end of the section.
PrefixHost(raw, i, secEnd, nameEnd, user, p) ==
    [ok |-> TRUE,
     prefix |-> Some([raw_prefix |-> Range(i + 1, secEnd),
                      prefix     |-> Range(i + 1, nameEnd),
                      user       |-> user,
                      host       |-> IF p < secEnd /\ raw[p + 1] = "@"
                                     THEN Some(Range(p + 1, secEnd))
                                     ELSE None]),
     next |-> SkipSpaces(raw, secEnd)]

\* The name is raw[i+1..nameEnd): empty is malformed; a '!' after it introduces
\* the user, which runs to the next '@' or space.
PrefixUser(raw, i, secEnd, nameEnd) ==
    IF nameEnd = i + 1 THEN [ok |-> FALSE]
    ELSE IF nameEnd < secEnd /\ raw[nameEnd + 1] = "!"
    THEN LET userEnd == ScanUntil(raw, nameEnd + 1, {"@", SP})
         IN  PrefixHost(raw, i, secEnd, nameEnd,
                        Some(Range(nameEnd + 1, userEnd)), userEnd)
    ELSE PrefixHost(raw, i, secEnd, nameEnd, None, nameEnd)

\* Step 2: the prefix section, raw[i] being ':', ends at the first space; the
\* name ends at the first '!', '@' or space.
ParsePrefix(raw, i) ==
    PrefixUser(raw, i, ScanUntil(raw, i + 1, {SP}),
               ScanUntil(raw, i + 1, {"!", "@", SP}))

RECURSIVE ParseArgs(_, _)
\* Step 4: the arguments from offset i.
ParseArgs(raw, i) ==
    LET j == SkipSpaces(raw, i)
    IN  IF j >= Len(raw) THEN <<>>
        ELSE IF raw[j + 1] = ":" THEN <<Range(j + 1, Len(raw))>>
        ELSE LET e == ScanUntil(raw, j, {SP})
             IN  <<Range(j, e)>> \o ParseArgs(raw, e)

\* The Message that owns raw; no argument at all is None.
MkMessage(raw, tags, prefix, command, args) ==
    Ok([message   |-> raw,
        tags      |-> tags,
        prefix    |-> prefix,
        command   |-> command,
        arguments |-> IF args = <<>> THEN None ELSE Some(args)])

\* Step 3: the command token is the run of non-space characters at offset i.
ParseCommand(raw, tags, prefix, i) ==
    LET cEnd == ScanUntil(raw, i, {SP})
    IN  IF cEnd = i \/ ~IsCommand(Slice(raw, Range(i, cEnd)))
        THEN Err("MissingCommand")
        ELSE MkMessage(raw, tags, prefix, Range(i, cEnd), ParseArgs(raw, cEnd))

\* After step 2, p being its outcome.
AfterPrefix(raw, tags, p) ==
    IF ~p.ok THEN Err("MalformedPrefix")
    ELSE ParseCommand(raw, tags, p.prefix, p.next)

\* After step 1, t being its outcome.
AfterTags(raw, t) ==
    IF ~t.ok THEN Err("MalformedTags")
    ELSE IF t.next < Len(raw) /\ raw[t.next + 1] = ":"
    THEN AfterPrefix(raw, t.tags, ParsePrefix(raw, t.next))
    ELSE AfterPrefix(raw, t.tags, [ok |-> TRUE, prefix |-> None, next |-> t.next])

\* parser::parse_message
parse_message(raw) ==
    IF Len(raw) > 0 /\ raw[1] = "@"
    THEN AfterTags(raw, ParseTags(raw))
    ELSE AfterTags(raw, [ok |-> TRUE, tags |-> None, next |-> 0])

-----------------------------------------------------------------------------
(* Iterators (spec.md 4.4): a borrow of the text and a cursor over ranges *)

ArgumentIter_new(text, ranges) == [text |-> text, ranges |-> ranges, pos |-> 0]

TagIter_new(text, ranges) == [text |-> text, ranges |-> ranges, pos |-> 0]

IterHasNext(it) == it.pos < Len(it.ranges)

IterAdvance(it) == [it EXCEPT !.pos = it.pos + 1]

\* ArgumentIter::next, when it yields
ArgumentIter_item(it) == Slice(it.text, it.ranges[it.pos + 1])

\* TagIter::next, when it yields
TagIter_item(it) ==
    <<Slice(it.text, it.ranges[it.pos + 1][1]),
      MapSlice(it.text, it.ranges[it.pos + 1][2])>>

RECURSIVE CollectArgs(_)
\* iterator.collect()
CollectArgs(it) ==
    IF IterHasNext(it)
    THEN <<ArgumentIter_item(it)>> \o CollectArgs(IterAdvance(it))
    ELSE <<>>

RECURSIVE CollectTags(_)
CollectTags(it) ==
    IF IterHasNext(it)
    THEN <<TagIter_item(it)>> \o CollectTags(IterAdvance(it))
    ELSE <<>>

-----------------------------------------------------------------------------
(* Message: src/message/mod.rs *)

\* Try with the error's kind lost on the way out.
TryRelabel(r) == IF r.tag = "Err" THEN Err("ParseError") ELSE Ok(r.val)

\* expr?  then Ok(result): an Err returns early, as it is.
Try(r) == IF r.tag = "Err" THEN r ELSE Ok(r.val)

try_from(value) == Try(parse_message(value))

\* prefix with user and host in each other's place.
prefix_swapped(m) ==
    IF m.prefix.some
    THEN Some(<<Slice(m.message, m.prefix.val.prefix),
                MapSlice(m.message, m.prefix.val.host),
                MapSlice(m.message, m.prefix.val.user)>>)
    ELSE None

prefix(m) ==
    IF m.prefix.some
    THEN Some(<<Slice(m.message, m.prefix.val.prefix),
                MapSlice(m.message, m.prefix.val.user),
                MapSlice(m.message, m.prefix.val.host)>>)
    ELSE None

\* raw_tags with a missing value handed on as an empty one.
raw_tags_conflated(m) ==
    IF m.tags.some
    THEN TagIter_new(m.message,
                     [k \in 1..Len(m.tags.val) |->
                         <<m.tags.val[k][1],
                           IF m.tags.val[k][2].some THEN m.tags.val[k][2]
                           ELSE Some(Range(m.tags.val[k][1].end, m.tags.val[k][1].end))>>])
    ELSE TagIter_new(m.message, <<>>)

raw_tags(m) ==
    IF m.tags.some
    THEN TagIter_new(m.message, m.tags.val)
    ELSE TagIter_new(m.message, <<>>)

raw_prefix(m) ==
    IF m.prefix.some
    THEN Some(Slice(m.message, m.prefix.val.raw_prefix))
    ELSE None

\* raw_command sliced from the start of the line.
raw_command_fromStart(m) == Slice(m.message, Range(0, m.command.end))

raw_command(m) == Slice(m.message, m.command)

\* raw_args without the last stored argument.
raw_args_dropLast(m) ==
    IF m.arguments.some
    THEN ArgumentIter_new(m.message,
                          SubSeq(m.arguments.val, 1, Len(m.arguments.val) - 1))
    ELSE ArgumentIter_new(m.message, <<>>)

\* raw_args with the cursor started one range in.
raw_args_skipFirst(m) ==
    IF m.arguments.some
    THEN ArgumentIter_new(m.message, Tail(m.arguments.val))
    ELSE ArgumentIter_new(m.message, <<>>)

raw_args(m) ==
    IF m.arguments.some
    THEN ArgumentIter_new(m.message, m.arguments.val)
    ELSE ArgumentIter_new(m.message, <<>>)

\* raw_message with a trailing space trimmed.
raw_message_trimmed(m) ==
    IF m.message # <<>> /\ m.message[Len(m.message)] = " "
    THEN SubSeq(m.message, 1, Len(m.message) - 1)
    ELSE m.message

raw_message(m) == m.message

-----------------------------------------------------------------------------
(* Constructors: format!(...) then Message::try_from *)

ping(host) == try_from(<<"P","I","N","G"," ",":">> \o host)

pong(host) == try_from(<<"P","O","N","G"," ">> \o host)

pass(p) == try_from(<<"P","A","S","S"," ">> \o p)

nick(n) == try_from(<<"N","I","C","K"," ">> \o n)

user(username, real_name) ==
    try_from(<<"U","S","E","R"," ">> \o username \o <<" ","0"," ","*"," ",":">> \o real_name)

cap_req(cap) == try_from(<<"C","A","P"," ","R","E","Q"," ",":">> \o cap)

join(channel) == try_from(<<"J","O","I","N"," ">> \o channel)

\* privmsg formatted without the ':' before the message.
privmsg_nocolon(targets, message) ==
    try_from(<<"P","R","I","V","M","S","G"," ">> \o targets \o <<" ">> \o message)

privmsg(targets, message) ==
    try_from(<<"P","R","I","V","M","S","G"," ">> \o targets \o <<" ",":">> \o message)

welcome(target, message) ==
    try_from(<<"0","0","1"," ">> \o target \o <<" ",":">> \o message)

yourhost(target, message) ==
    try_from(<<"0","0","2"," ">> \o target \o <<" ",":">> \o message)

created(target, message) ==
    try_from(<<"0","0","3"," ">> \o target \o <<" ",":">> \o message)

serverinfo(target, message) ==
    try_from(<<"0","0","4"," ">> \o target \o <<" ",":">> \o message)

-----------------------------------------------------------------------------
(* Inputs *)

Alphabet == {" ", ":", "@", "!", ";", "=", "a", "1"}

\* Every line over Alphabet of length 0..MaxLen.
ShortLines == UNION {[1..n -> Alphabet] : n \in 0..MaxLen}

TagParts ==
    {<<>>,
     <<"@","a"," ">>,
     <<"@","a","="," ">>,
     <<"@","a","=","1"," ">>,
     <<"@","a",";","b","=","1",";","c","="," ">>,
     <<"@","a","=","b","=","c"," "," ">>,
     <<"@"," ">>,
     <<"@",";","a"," ">>,
     <<"@","a",";"," ">>,
     <<"@","=","1"," ">>,
     <<"@","a">>}

PrefixParts ==
    {<<>>,
     <<":","n"," ">>,
     <<":","n","!","u"," ">>,
     <<":","n","@","h"," ">>,
     <<":","n","!","u","@","h"," "," ">>,
     <<":","n","@","h","!","u"," ">>,
     <<":","!","u"," ">>,
     <<":","@","h"," ">>,
     <<":"," ">>,
     <<":","n","!"," ">>,
     <<":","n","!","u","@"," ">>,
     <<":","n","!","u","!","v","@","h","@","g"," ">>,
     <<":","n">>}

CommandParts ==
    {<<>>,
     <<"P","I","N","G">>,
     <<"0","0","1">>,
     <<"0","1">>,
     <<"0","0","1","2">>,
     <<"P","1">>,
     <<"x">>}

ParamParts ==
    {<<>>,
     <<" ">>,
     <<" ","a">>,
     <<" ","a"," ","b">>,
     <<" ",":">>,
     <<" ",":","t"," ","s">>,
     <<" ","a"," ",":","t"," ",":","s">>,
     <<" "," ","a"," "," "," ","b"," "," ">>,
     <<" ","a"," ",":">>,
     <<" ",":",":">>,
     <<":","t">>}

\* Lines put together from a tag part, a prefix part, a command and parameters.
ComposedLines ==
    {t \o p \o c \o a : t \in TagParts, p \in PrefixParts,
                        c \in CommandParts, a \in ParamParts}

ExPrivmsg ==
    <<":","n","i","c","k","!","u","s","e","r","@","h","o","s","t"," ",
      "P","R","I","V","M","S","G"," ","#","c","h","a","n"," ",
      ":","h","e","l","l","o"," ","w","o","r","l","d">>

ExPing ==
    <<"P","I","N","G"," ",":","t","m","i",".","t","w","i","t","c","h",".","t","v">>

ExTags ==
    <<"@","b","a","d","g","e","-","i","n","f","o","=",";",
      "c","o","l","o","r","=","#","F","F","0","0","0","0"," ",
      ":","t","m","i"," ","P","R","I","V","M","S","G"," ","#","c","h","a","n"," ",
      ":","h","i">>

ExTagsOnly ==
    <<"@","t","i","m","e","=","1","2","3">>

ExampleLines == {ExPrivmsg, ExPing, ExTags, ExTagsOnly, <<>>}

Lines == ShortLines \cup ComposedLines \cup ExampleLines

ParamAlphabet == {" ", ":", "a"}

\* Constructor parameters: every string over ParamAlphabet of length 0..MaxParam.
Params == UNION {[1..n -> ParamAlphabet] : n \in 0..MaxParam}

\* Lines whose iterators are stepped one item at a time.
IterLines ==
    {ExPrivmsg, ExPing, ExTags,
     <<"P","I","N","G">>,
     <<"@"," ","P","I","N","G"," ",":">>,
     <<"@","a",";","b","=","1",";","c","="," ","0","0","1"," ","a"," ","b"," ",":","t"," ","s">>,
     <<":","n"," ">>}

-----------------------------------------------------------------------------
(* State machine *)

NoResult == [tag |-> "None"]

NoRet == [op |-> "none"]

Unary == {"ping", "pong", "pass", "nick", "cap_req", "join"}

Binary == {"user", "privmsg", "welcome", "yourhost", "created", "serverinfo"}

\* What a caller may ask for: a line to parse, or a constructor and its parameters.
Calls ==
    {[fn |-> "try_from", args |-> <<L>>] : L \in Lines}
      \cup {[fn |-> f, args |-> <<h>>] : f \in Unary, h \in Params}
      \cup {[fn |-> f, args |-> <<t, m>>] : f \in Binary, t \in Params, m \in Params}

Fresh ==
    /\ result = NoResult
    /\ ret = NoRet
    /\ argIters = <<>>
    /\ tagIters = <<>>

Init == call \in Calls /\ Fresh

\* The call returns r to the caller.
Return(r) ==
    /\ result' = r
    /\ UNCHANGED <<call, ret, argIters, tagIters>>

Pending(fn) == result = NoResult /\ call.fn = fn

TryFrom == Pending("try_from") /\ Return(try_from(call.args[1]))

Ping == Pending("ping") /\ Return(ping(call.args[1]))

Pong == Pending("pong") /\ Return(pong(call.args[1]))

Pass == Pending("pass") /\ Return(pass(call.args[1]))

Nick == Pending("nick") /\ Return(nick(call.args[1]))

User == Pending("user") /\ Return(user(call.args[1], call.args[2]))

CapReq == Pending("cap_req") /\ Return(cap_req(call.args[1]))

Join == Pending("join") /\ Return(join(call.args[1]))

Privmsg == Pending("privmsg") /\ Return(privmsg(call.args[1], call.args[2]))

Welcome == Pending("welcome") /\ Return(welcome(call.args[1], call.args[2]))

Yourhost == Pending("yourhost") /\ Return(yourhost(call.args[1], call.args[2]))

Created == Pending("created") /\ Return(created(call.args[1], call.args[2]))

Serverinfo == Pending("serverinfo") /\ Return(serverinfo(call.args[1], call.args[2]))

\* An accessor has returned v; it leaves the Message alone.
Access(op, v) ==
    /\ ret' = [op |-> op, val |-> v]
    /\ UNCHANGED <<call, result, argIters, tagIters>>

Prefix == result.tag = "Ok" /\ Access("prefix", prefix(result.val))

RawPrefix == result.tag = "Ok" /\ Access("raw_prefix", raw_prefix(result.val))

RawCommand == result.tag = "Ok" /\ Access("raw_command", raw_command(result.val))

RawMessage == result.tag = "Ok" /\ Access("raw_message", raw_message(result.val))

\* raw_args().collect()
RawArgs == result.tag = "Ok" /\ Access("raw_args", CollectArgs(raw_args(result.val)))

\* raw_tags().collect()
RawTags == result.tag = "Ok" /\ Access("raw_tags", CollectTags(raw_tags(result.val)))

Next ==
    \/ TryFrom
    \/ Ping
    \/ Pong
    \/ Pass
    \/ Nick
    \/ User
    \/ CapReq
    \/ Join
    \/ Privmsg
    \/ Welcome
    \/ Yourhost
    \/ Created
    \/ Serverinfo
    \/ Prefix
    \/ RawPrefix
    \/ RawCommand
    \/ RawMessage
    \/ RawArgs
    \/ RawTags

Spec == Init /\ [][Next]_vars

-----------------------------------------------------------------------------
(* Iterators stepped one item at a time *)

\* raw_args() is called: a fresh iterator.
CallRawArgs ==
    /\ result.tag = "Ok"
    /\ Len(argIters) < MaxIters
    /\ argIters' = Append(argIters,
                          [it |-> raw_args(result.val), yielded |-> <<>>, done |-> FALSE])
    /\ UNCHANGED <<call, result, ret, tagIters>>

\* next() on the k-th ArgumentIter: an item, or None at the end.
ArgNext(k) ==
    /\ k \in 1..Len(argIters)
    /\ ~argIters[k].done
    /\ argIters' =
         [argIters EXCEPT ![k] =
            IF IterHasNext(@.it)
            THEN [it |-> IterAdvance(@.it),
                  yielded |-> Append(@.yielded, ArgumentIter_item(@.it)),
                  done |-> FALSE]
            ELSE [@ EXCEPT !.done = TRUE]]
    /\ UNCHANGED <<call, result, ret, tagIters>>

\* raw_tags() is called: a fresh iterator.
CallRawTags ==
    /\ result.tag = "Ok"
    /\ Len(tagIters) < MaxIters
    /\ tagIters' = Append(tagIters,
                          [it |-> raw_tags(result.val), yielded |-> <<>>, done |-> FALSE])
    /\ UNCHANGED <<call, result, ret, argIters>>

\* next() on the k-th TagIter.
TagNext(k) ==
    /\ k \in 1..Len(tagIters)
    /\ ~tagIters[k].done
    /\ tagIters' =
         [tagIters EXCEPT ![k] =
            IF IterHasNext(@.it)
            THEN [it |-> IterAdvance(@.it),
                  yielded |-> Append(@.yielded, TagIter_item(@.it)),
                  done |-> FALSE]
            ELSE [@ EXCEPT !.done = TRUE]]
    /\ UNCHANGED <<call, result, ret, argIters>>

InitIter == call \in {[fn |-> "try_from", args |-> <<L>>] : L \in IterLines} /\ Fresh

NextIter ==
    \/ TryFrom
    \/ CallRawArgs
    \/ \E k \in 1..MaxIters : ArgNext(k)
    \/ CallRawTags
    \/ \E k \in 1..MaxIters : TagNext(k)
    \/ Prefix
    \/ RawCommand

SpecIter == InitIter /\ [][NextIter]_vars

-----------------------------------------------------------------------------
(* What the grammar says of a line, by first occurrences (1-based positions) *)

Min(S) == CHOOSE x \in S : \A y \in S : x <= y

RECURSIVE Sorted(_)
\* The members of a set of numbers, increasing.
Sorted(S) == IF S = {} THEN <<>> ELSE <<Min(S)>> \o Sorted(S \ {Min(S)})

\* The first position >= from holding a character of C, or Len(L) + 1.
FirstIn(L, from, C) ==
    LET S == {j \in from..Len(L) : L[j] \in C}
    IN  IF S = {} THEN Len(L) + 1 ELSE Min(S)

\* The first position >= from not holding a space, or Len(L) + 1.
FirstNotSpace(L, from) ==
    LET S == {j \in from..Len(L) : L[j] # " "}
    IN  IF S = {} THEN Len(L) + 1 ELSE Min(S)

HasTagSec(L) == Len(L) >= 1 /\ L[1] = "@"

TagSecEnd(L) == FirstIn(L, 2, {" "})

\* The tag section without its '@'.
TagSec(L) == SubSeq(L, 2, TagSecEnd(L) - 1)

AfterTagsPos(L) == IF HasTagSec(L) THEN FirstNotSpace(L, TagSecEnd(L)) ELSE 1

HasPrefixSec(L) == AfterTagsPos(L) <= Len(L) /\ L[AfterTagsPos(L)] = ":"

PrefixSecEnd(L) == FirstIn(L, AfterTagsPos(L) + 1, {" "})

\* The prefix section without its ':'.
RawPrefixOf(L) == SubSeq(L, AfterTagsPos(L) + 1, PrefixSecEnd(L) - 1)

CommandPos(L) ==
    IF HasPrefixSec(L) THEN FirstNotSpace(L, PrefixSecEnd(L)) ELSE AfterTagsPos(L)

CommandEnd(L) == FirstIn(L, CommandPos(L), {" "})

CommandTok(L) == SubSeq(L, CommandPos(L), CommandEnd(L) - 1)

\* Some entry of the non-empty tag section S has an empty key.
EmptyTagKey(S) ==
    \/ S[1] \in {";", "="}
    \/ S[Len(S)] = ";"
    \/ \E j \in 1..(Len(S) - 1) : S[j] = ";" /\ S[j + 1] \in {";", "="}

TagsMalformed(L) == HasTagSec(L) /\ TagSec(L) # <<>> /\ EmptyTagKey(TagSec(L))

\* The prefix name is empty: ':' is followed by the end, a space, '!' or '@'.
PrefixMalformed(L) ==
    HasPrefixSec(L) /\ (RawPrefixOf(L) = <<>> \/ RawPrefixOf(L)[1] \in {"!", "@"})

SectionsWellFormed(L) == ~TagsMalformed(L) /\ ~PrefixMalformed(L)

\* The pieces of S between occurrences of c.
SplitOn(S, c) ==
    LET cuts == Sorted({0, Len(S) + 1} \cup {j \in 1..Len(S) : S[j] = c})
    IN  [k \in 1..(Len(cuts) - 1) |-> SubSeq(S, cuts[k] + 1, cuts[k + 1] - 1)]

\* A tag entry as (key, value): no '=' is None, '=' with nothing after is Some(<<>>).
TagPair(e) ==
    LET q == FirstIn(e, 1, {"="})
    IN  <<SubSeq(e, 1, q - 1),
          IF q <= Len(e) THEN Some(SubSeq(e, q + 1, Len(e))) ELSE None>>

ExpectedTags(L) ==
    IF ~HasTagSec(L) \/ TagSec(L) = <<>> THEN <<>>
    ELSE LET es == SplitOn(TagSec(L), ";")
         IN  [k \in 1..Len(es) |-> TagPair(es[k])]

\* The position of the ':' that introduces the trailing argument, or 0.
TrailingPos(L) ==
    LET S == {j \in (CommandEnd(L) + 1)..Len(L) : L[j] = ":" /\ L[j - 1] = " "}
    IN  IF S = {} THEN 0 ELSE Min(S)

\* Where the arguments before the trailing one start.
MiddleStarts(L) ==
    LET lim == IF TrailingPos(L) = 0 THEN Len(L) ELSE TrailingPos(L) - 1
    IN  {j \in (CommandEnd(L) + 1)..lim : L[j] # " " /\ L[j - 1] = " "}

ExpectedArgs(L) ==
    LET starts == Sorted(MiddleStarts(L))
    IN  [k \in 1..Len(starts) |->
            SubSeq(L, starts[k], FirstIn(L, starts[k], {" "}) - 1)]
        \o (IF TrailingPos(L) = 0 THEN <<>>
            ELSE <<SubSeq(L, TrailingPos(L) + 1, Len(L))>>)

\* name ['!' user] ['@' host] of the raw prefix R.
ExpectedPrefix(R) ==
    LET bang == FirstIn(R, 1, {"!"})
        at   == FirstIn(R, 1, {"@"})
    IN  <<SubSeq(R, 1, FirstIn(R, 1, {"!", "@"}) - 1),
          IF bang < at THEN Some(SubSeq(R, bang + 1, at - 1)) ELSE None,
          IF at <= Len(R) THEN Some(SubSeq(R, at + 1, Len(R))) ELSE None>>

-----------------------------------------------------------------------------
(* Claims *)

\* try_from(L) has returned.
Parsed == call.fn = "try_from" /\ result # NoResult

\* The line given to try_from.
L0 == call.args[1]

Returned(op) == ret.op = op

\* The characters of a string.
Chars(t) == {t[i] : i \in 1..Len(t)}

\* command := 1*letter | 3digit
CommandShape(t) ==
    /\ t # <<>>
    /\ Chars(t) \subseteq Letters \/ (Len(t) = 3 /\ Chars(t) \subseteq Digits)

\* C1: for every line L that try_from parses, raw_message() returns exactly L
\* (the Message owns L unchanged, and the accessor returns all of it).
C1_RawMessageIsLine ==
    (Parsed /\ result.tag = "Ok") =>
        /\ result.val.message = L0
        /\ Returned("raw_message") => ret.val = L0

C1_Witness ==
    /\ Parsed /\ L0 = ExTags /\ result.tag = "Ok"
    /\ Returned("raw_message") /\ ret.val = ExTags

\* C2: a line whose tag and prefix sections (if any) are consumed and which has
\* no character left for the command fails with MissingCommand: the empty line,
\* "@time=123", a line of only tags and/or a prefix.
C2_MissingCommand ==
    /\ (Parsed /\ SectionsWellFormed(L0) /\ CommandPos(L0) > Len(L0))
          => result = Err("MissingCommand")
    /\ (Parsed /\ L0 \in {<<>>, ExTagsOnly}) => result = Err("MissingCommand")

C2_Witness ==
    Parsed /\ L0 = ExTagsOnly /\ result = Err("MissingCommand")

C4_Args ==
    (Parsed /\ result.tag = "Ok" /\ Returned("raw_args")) =>
        /\ ret.val = ExpectedArgs(L0)
        /\ \A k \in 1..(Len(ret.val) - 1) :
              /\ ret.val[k] # <<>>
              /\ " " \notin Chars(ret.val[k])
              /\ ret.val[k][1] # ":"
        /\ L0 = ExPing => ret.val = << <<"t","m","i",".","t","w","i","t","c","h",".","t","v">> >>
        /\ L0 = ExPrivmsg =>
              ret.val = << <<"#","c","h","a","n">>,
                           <<"h","e","l","l","o"," ","w","o","r","l","d">> >>

C4_Witness ==
    /\ Parsed /\ L0 = ExPrivmsg /\ Returned("raw_args")
    /\ Len(ret.val) = 2 /\ " " \in Chars(ret.val[2])

\* C5: raw_tags() yields the tag entries in source order, with value None for
\* an entry without '=' and Some(empty) for an entry ending in '='.
C5_Tags ==
    (Parsed /\ result.tag = "Ok" /\ Returned("raw_tags")) =>
        /\ ret.val = ExpectedTags(L0)
        /\ L0 = ExTags =>
              ret.val = << << <<"b","a","d","g","e","-","i","n","f","o">>, Some(<<>>) >>,
                           << <<"c","o","l","o","r">>,
                              Some(<<"#","F","F","0","0","0","0">>) >> >>

C5_Witness ==
    /\ Parsed /\ result.tag = "Ok" /\ Returned("raw_tags")
    /\ \E j \in 1..Len(ret.val), k \in 1..Len(ret.val) :
          ret.val[j][2] = None /\ ret.val[k][2] = Some(<<>>)

\* The slices of the stored argument ranges, in stored order.
StoredArgs(m) ==
    IF m.arguments.some
    THEN [k \in 1..Len(m.arguments.val) |-> Slice(m.message, m.arguments.val[k])]
    ELSE <<>>

\* The slices of the stored tag ranges, in stored order.
StoredTags(m) ==
    IF m.tags.some
    THEN [k \in 1..Len(m.tags.val) |->
             <<Slice(m.message, m.tags.val[k][1]), MapSlice(m.message, m.tags.val[k][2])>>]
    ELSE <<>>

\* An iterator has yielded the first items of all, and all of them at its end.
YieldsInOrder(i, all) ==
    /\ Len(i.yielded) <= Len(all)
    /\ i.yielded = SubSeq(all, 1, Len(i.yielded))
    /\ i.done => i.yielded = all

\* C6: every iterator raw_args() or raw_tags() returns, whatever was called and
\* consumed before, yields the slice of each stored range once, in order, and
\* ends; two iterators run to their end have yielded the same.
C6_Iterators ==
    result.tag = "Ok" =>
        /\ \A k \in 1..Len(argIters) :
              /\ YieldsInOrder(argIters[k], StoredArgs(result.val))
              /\ argIters[k].done => argIters[k].yielded = ExpectedArgs(L0)
        /\ \A k \in 1..Len(tagIters) :
              /\ YieldsInOrder(tagIters[k], StoredTags(result.val))
              /\ tagIters[k].done => tagIters[k].yielded = ExpectedTags(L0)
        /\ \A j \in 1..Len(argIters), k \in 1..Len(argIters) :
              (argIters[j].done /\ argIters[k].done)
                 => argIters[j].yielded = argIters[k].yielded
        /\ \A j \in 1..Len(tagIters), k \in 1..Len(tagIters) :
              (tagIters[j].done /\ tagIters[k].done)
                 => tagIters[j].yielded = tagIters[k].yielded

C6_Witness ==
    /\ Len(argIters) = 2 /\ argIters[1].done /\ argIters[2].done
    /\ Len(argIters[2].yielded) = 2
    /\ Len(tagIters) = 2 /\ tagIters[1].done /\ tagIters[2].done
    /\ Len(tagIters[2].yielded) = 2
    /\ ret.op = "raw_command"

ErrorKinds == {"MissingCommand", "MalformedTags", "MalformedPrefix"}

\* C7: an empty tag key fails with MalformedTags, an empty prefix name with
\* MalformedPrefix (never with MissingCommand), each kind only for a line that
\* has that section; a failure is an error kind alone, with no Message.
C7_Errors ==
    Parsed =>
        /\ result.tag \in {"Ok", "Err"}
        /\ result.tag = "Err" =>
              (DOMAIN result = {"tag", "err"} /\ result.err \in ErrorKinds)
        /\ TagsMalformed(L0) => result = Err("MalformedTags")
        /\ (~TagsMalformed(L0) /\ PrefixMalformed(L0)) => result = Err("MalformedPrefix")
        /\ result = Err("MalformedTags") => HasTagSec(L0)
        /\ result = Err("MalformedPrefix") => HasPrefixSec(L0)

C7_Witness ==
    /\ Parsed /\ HasTagSec(L0) /\ PrefixMalformed(L0)
    /\ result = Err("MalformedPrefix")

RangeOk(r, n) == 0 <= r.start /\ r.start <= r.end /\ r.end <= n

OptRange(o) == IF o.some THEN <<o.val>> ELSE <<>>

RECURSIVE FlatTags(_)
\* The key and value ranges of the tag entries, in stored order.
FlatTags(ts) ==
    IF ts = <<>> THEN <<>>
    ELSE <<ts[1][1]>> \o OptRange(ts[1][2]) \o FlatTags(Tail(ts))

\* Every stored range but raw_prefix, in the order of the sections.
FlatRanges(m) ==
    (IF m.tags.some THEN FlatTags(m.tags.val) ELSE <<>>)
      \o (IF m.prefix.some
          THEN <<m.prefix.val.prefix>> \o OptRange(m.prefix.val.user)
                                       \o OptRange(m.prefix.val.host)
          ELSE <<>>)
      \o <<m.command>>
      \o (IF m.arguments.some THEN m.arguments.val ELSE <<>>)

\* C8: every stored range lies within the text, and the ranges do not overlap
\* and are in file order: tags, prefix (name, user, host inside the raw
\* prefix), command, arguments.
C8_Ranges ==
    result.tag = "Ok" =>
        LET m  == result.val
            rs == FlatRanges(m)
        IN  /\ \A i \in 1..Len(rs) : RangeOk(rs[i], Len(m.message))
            /\ \A i \in 1..Len(rs), j \in 1..Len(rs) :
                  i < j => rs[i].end <= rs[j].start
            /\ m.prefix.some =>
                  LET raw == m.prefix.val.raw_prefix
                      ts  == IF m.tags.some THEN FlatTags(m.tags.val) ELSE <<>>
                  IN  /\ RangeOk(raw, Len(m.message))
                      /\ \A i \in 1..Len(ts) : ts[i].end <= raw.start
                      /\ raw.start <= m.prefix.val.prefix.start
                      /\ m.prefix.val.prefix.end <= raw.end
                      /\ m.prefix.val.user.some => m.prefix.val.user.val.end <= raw.end
                      /\ m.prefix.val.host.some => m.prefix.val.host.val.end <= raw.end
                      /\ raw.end <= m.command.start

C8_Witness ==
    /\ result.tag = "Ok"
    /\ result.val.tags.some /\ Len(result.val.tags.val) >= 2
    /\ result.val.prefix.some /\ result.val.prefix.val.user.some
    /\ result.val.prefix.val.host.some
    /\ result.val.arguments.some /\ Len(result.val.arguments.val) >= 2

TrailingCtors ==
    {"ping", "cap_req", "user", "privmsg", "welcome", "yourhost", "created", "serverinfo"}

\* How many arguments the line of each has.
ArgCount(fn) ==
    CASE fn = "ping" -> 1
      [] fn = "user" -> 4
      [] OTHER -> 2

\* Non-empty, without a space, not starting with ':'.
PlainParam(p) == p # <<>> /\ " " \notin Chars(p) /\ p[1] # ":"

\* C10: a constructor that puts its last parameter after " :" succeeds when its
\* other parameters are plain, whatever the last parameter is, and the last
\* argument is that parameter exactly; ping("") is PING with one empty argument.
C10_TrailingParam ==
    (/\ call.fn \in TrailingCtors
     /\ result # NoResult
     /\ \A i \in 1..(Len(call.args) - 1) : PlainParam(call.args[i])) =>
        /\ result.tag = "Ok"
        /\ Returned("raw_args") =>
              /\ Len(ret.val) = ArgCount(call.fn)
              /\ ret.val[Len(ret.val)] = call.args[Len(call.args)]
        /\ (call.fn = "ping" /\ call.args = << <<>> >>) =>
              /\ Returned("raw_command") => ret.val = <<"P","I","N","G">>
              /\ Returned("raw_args") => ret.val = << <<>> >>

C10_Witness ==
    /\ call.fn = "ping" /\ call.args = << <<>> >>
    /\ result.tag = "Ok" /\ Returned("raw_args") /\ ret.val = << <<>> >>

=============================================================================
